---- MODULE Spec2Model ----
(***************************************************************************)
(* PowerPoint slicer: split_pptx, export_slides_as_images,                 *)
(* split_pptx_with_images (pptx_slicer.py) and the POST /slice handler     *)
(* slice_powerpoint (api.py).                                              *)
(*                                                                         *)
(* The program is single-threaded and keeps no state of its own between    *)
(* calls; what persists is the file system and the presentation            *)
(* application.  Every public operation is one action.  What the program   *)
(* does not control (which tools are installed, what the converter and     *)
(* the libraries answer) is a choice made by the action.                   *)
(***************************************************************************)
EXTENDS Integers, Sequences, FiniteSets, TLC

\* ------------------------------------------------------------------ bounds
\* Largest number of slides of the source presentation.
MaxSlides == 3
\* Number of operations called on the same file system in one behaviour.
MaxCalls == 1

\* ------------------------------------------------------------------ strings
\* str.lower() on the strings the model uses; every other string is lower
\* case already.
Lower(s) ==
    CASE s = "PPTX" -> "pptx"
      [] s = "JPEG" -> "jpeg"
      [] s = "PNG"  -> "png"
      [] OTHER      -> s

\* ------------------------------------------------------------------ paths
\* A directory is a list of path components, relative or absolute.
\* NoneDir is Python's None for an optional directory argument.
NoneDir == [abs |-> FALSE, parts |-> <<>>]
DefaultPptxDir == [abs |-> FALSE, parts |-> <<"output", "pptx">>]
DefaultImagesDir == [abs |-> FALSE, parts |-> <<"output", "images">>]
CustomPptxDir == [abs |-> TRUE, parts |-> <<"out", "pptx">>]
CustomImagesDir == [abs |-> TRUE, parts |-> <<"out", "images">>]

\* os.path.join(dir, name)
Join(dir, name) == [dir EXCEPT !.parts = Append(@, name)]

\* os.path.abspath(dir): a relative directory is taken from the working
\* directory.
Abspath(dir) ==
    IF dir.abs THEN dir ELSE [abs |-> TRUE, parts |-> <<"cwd">> \o dir.parts]

\* The directory and all its ancestors: Path.mkdir(parents=True).
Ancestors(dir) ==
    {[abs |-> TRUE, parts |-> SubSeq(dir.parts, 1, k)] : k \in 1..Len(dir.parts)}

\* dir is anc or lies below it.
Under(dir, anc) ==
    /\ Len(anc.parts) <= Len(dir.parts)
    /\ SubSeq(dir.parts, 1, Len(anc.parts)) = anc.parts

\* The input files a caller names.  DeckPath is the presentation (it exists
\* when source.exists); NotesPath is an existing file that is no presentation.
DeckPath == [stem |-> "demo", ext |-> "PPTX"]
NotesPath == [stem |-> "notes", ext |-> "txt"]
InputPaths == {DeckPath, NotesPath}

\* The name with the slide counted from 0.
SlidePathFromZero(dir, stem, idx, ext) ==
    [dir |-> dir, stem |-> stem, idx |-> idx - 1, ext |-> ext]

\* os.path.join(output_dir, f"{input_name}_slide_{idx}.{ext}")
SlidePath(dir, stem, idx, ext) ==
    [dir |-> dir, stem |-> stem, idx |-> idx, ext |-> ext]

\* ------------------------------------------------------------------ files
\* The file system below the output directories: the directories that exist
\* and the files, each at an absolute location with its content.  A content
\* is [kind, slides, rels]: for a presentation its slide list and slide
\* relationships, for an image the slide it shows.
EmptyFs == [dirs |-> {}, files |-> {}]

Location(path) == [path EXCEPT !.dir = Abspath(path.dir)]

Mkdir(fs, dir) == [fs EXCEPT !.dirs = @ \cup Ancestors(Abspath(dir))]

WriteFile(fs, path, data) ==
    [fs EXCEPT !.files =
        {f \in @ : f.loc # Location(path)}
            \cup {[loc |-> Location(path), data |-> data]}]

\* shutil.rmtree(dir)
RmTree(fs, dir) ==
    [dirs  |-> {d \in fs.dirs : ~Under(d, Abspath(dir))},
     files |-> {f \in fs.files : ~Under(f.loc.dir, Abspath(dir))}]

\* Where the presentation is kept: a directory of its own, or the directory
\* <output_images_dir>/temp_pdf of a caller who names its parent as the
\* directory for the images.
DecksDir == [abs |-> TRUE, parts |-> <<"decks">>]
TempPdfDir == Join(CustomImagesDir, "temp_pdf")

\* The place of the source file on disk.
SourceLocation(src) ==
    [dir |-> src.dir, stem |-> DeckPath.stem, idx |-> 0, ext |-> DeckPath.ext]

\* The source after a file is written at path: replaced when path is its own
\* place, as it was otherwise.
Overwritten(src, path, data) ==
    IF src.exists /\ Location(path) = SourceLocation(src)
    THEN [src EXCEPT !.sldIdLst = data.slides, !.hidden = {}]
    ELSE src

\* The source after shutil.rmtree(dir): gone when it lies in the tree.
Removed(src, dir) ==
    IF src.exists /\ Under(src.dir, Abspath(dir))
    THEN [src EXCEPT !.exists = FALSE]
    ELSE src

\* os.path.exists(input_file)
Exists(src, path) == (path = DeckPath /\ src.exists) \/ path = NotesPath

\* Presentation(input_file): the loaded package, or a failure to load.
Presentation(src, path) ==
    IF path = DeckPath /\ src.exists
    THEN [ok |-> TRUE, sldIdLst |-> src.sldIdLst,
          rels |-> {src.sldIdLst[i] : i \in 1..Len(src.sldIdLst)}]
    ELSE [ok |-> FALSE, sldIdLst |-> <<>>, rels |-> {}]

\* ------------------------------------------------------------------ context
\* What a call threads through its steps: the file system, the presentation
\* application instances left running, and what the call did (functions
\* entered, directories made, files written, trees removed).
Enter(c, fn) == [c EXCEPT !.calls = Append(@, fn)]

DoMkdir(c, dir) ==
    [c EXCEPT !.fs = Mkdir(@, dir), !.mkdirs = @ \cup {Abspath(dir)}]

DoWrite(c, path, data) ==
    [c EXCEPT !.fs = WriteFile(@, path, data), !.writes = @ \cup {Location(path)},
              !.src = Overwritten(@, path, data)]

DoRmTree(c, dir) ==
    [c EXCEPT !.fs = RmTree(@, dir), !.rmtrees = @ \cup {Abspath(dir)},
              !.src = Removed(@, dir)]

\* A function's outcome: err = "" when it returned val.
Return(c, val) == [ctx |-> c, err |-> "", val |-> val]
Raise(c, err) == [ctx |-> c, err |-> err, val |-> <<>>]

\* ------------------------------------------------------------------ split_pptx
\* list(range(total_slides)) without slide_idx: 0-based indices, ascending.
SlidesToRemove(total_slides, slide_idx) ==
    [k \in 1..(total_slides - 1) |-> IF k - 1 < slide_idx THEN k - 1 ELSE k]

\* Iterating the list as it stands, lowest index first.
Ascending(seq) == seq

\* reversed(seq)
Reversed(seq) == [k \in 1..Len(seq) |-> seq[Len(seq) + 1 - k]]

\* rId = sldIdLst[idx].rId; part.drop_rel(rId); del sldIdLst[idx], idx 0-based.
\* An index past the end of the list is an IndexError.
DropSlide(prs, idx) ==
    IF idx + 1 > Len(prs.sldIdLst)
    THEN [prs EXCEPT !.ok = FALSE]
    ELSE [prs EXCEPT
            !.rels = @ \ {prs.sldIdLst[idx + 1]},
            !.sldIdLst = SubSeq(@, 1, idx) \o SubSeq(@, idx + 2, Len(@))]

\* for idx in order: drop slide idx; stops at the first IndexError.
RECURSIVE RemoveSlides(_, _)
RemoveSlides(prs, order) ==
    IF order = <<>> \/ ~prs.ok THEN prs
    ELSE RemoveSlides(DropSlide(prs, Head(order)), Tail(order))

\* The body of the loop over slide_idx (0-based) and the loop itself:
\* a fresh load of the source, the removal of every other slide, the save.
\* failAt > 0: the save of slide failAt fails (disk, permissions).
RECURSIVE SplitLoop(_, _, _, _, _, _, _)
SplitLoop(c, input_file, dir, total_slides, slide_idx, created_files, failAt) ==
    IF slide_idx >= total_slides THEN Return(c, created_files)
    ELSE
        LET output_file == SlidePath(dir, input_file.stem, slide_idx + 1, "pptx")
            temp_prs == Presentation(c.src, input_file)
            kept == RemoveSlides(temp_prs,
                        Reversed(SlidesToRemove(total_slides, slide_idx)))
        IN  IF ~kept.ok THEN Raise(c, "IndexError")
            ELSE IF failAt = slide_idx + 1 THEN Raise(c, "OSError")
            ELSE SplitLoop(
                    DoWrite(c, output_file,
                        [kind |-> "pptx", slides |-> kept.sldIdLst, rels |-> kept.rels]),
                    input_file, dir, total_slides, slide_idx + 1,
                    Append(created_files, output_file), failAt)

split_pptx(c0, input_file, output_dir, failAt) ==
    LET c == Enter(c0, "split_pptx") IN
    IF ~Exists(c.src, input_file) THEN Raise(c, "FileNotFoundError")
    ELSE
        LET dir == IF output_dir = NoneDir THEN DefaultPptxDir ELSE output_dir
            c1 == DoMkdir(c, dir)
            prs == Presentation(c1.src, input_file)
        IN  IF ~prs.ok THEN Raise(c1, "PackageNotFoundError")
            ELSE SplitLoop(c1, input_file, dir, Len(prs.sldIdLst), 0, <<>>, failAt)

\* ------------------------------------------------------------------ images
\* img_ext = image_format.lower(); if img_ext == 'jpeg': img_ext = 'jpg'
ImgExt(image_format) ==
    IF Lower(image_format) = "jpeg" THEN "jpg" ELSE Lower(image_format)

\* The slides a viewer shows: the pages of the PDF the converter writes.
\* The converter leaves hidden slides out of the document.
PdfPages(src) ==
    SelectSeq(src.sldIdLst, LAMBDA rId : rId \notin src.hidden)

\* The selection with PowerPoint automation preferred on Windows.
SelectBackendNativeFirst(is_windows, libreoffice_found) ==
    IF is_windows THEN "com"
    ELSE IF ~libreoffice_found THEN "none"
    ELSE "libreoffice"

\* The backend export_slides_as_images hands the work to: LibreOffice when a
\* command was found, else PowerPoint automation on Windows, else none.
SelectBackend(is_windows, libreoffice_found) ==
    IF is_windows /\ ~libreoffice_found THEN "com"
    ELSE IF ~libreoffice_found THEN "none"
    ELSE "libreoffice"

\* The loop of the automation backend over slide_idx = 1..total_slides.
\* env.com = "Export": the Export of the last slide fails.
RECURSIVE ComLoop(_, _, _, _, _, _, _)
ComLoop(c, prs, dir, stem, img_ext, slide_idx, env) ==
    IF slide_idx > Len(prs.sldIdLst) THEN Return(c, <<>>)
    ELSE
        LET image_path == SlidePath(dir, stem, slide_idx, img_ext)
            shown == [kind |-> IF img_ext = "png" THEN "PNG" ELSE "JPG",
                      slides |-> <<prs.sldIdLst[slide_idx]>>, rels |-> {}]
            c1 == IF img_ext \in {"png", "jpg"} THEN DoWrite(c, image_path, shown)
                  ELSE c
        IN  IF env.com = "Export" /\ slide_idx = Len(prs.sldIdLst)
                /\ img_ext \in {"png", "jpg"}
            THEN Raise(c, "com_error")
            ELSE LET rest == ComLoop(c1, prs, dir, stem, img_ext, slide_idx + 1, env)
                 IN  [rest EXCEPT !.val = IF rest.err = "" THEN <<image_path>> \o @ ELSE @]

\* powerpoint.Quit()
Quit(c) == [c EXCEPT !.app = FALSE]

export_slides_windows_com(c0, input_file, output_dir, image_format, env) ==
    LET c == Enter(c0, "_export_slides_windows_com")
        prs == Presentation(c.src, input_file)
    IN  IF ~env.pywin32 THEN Raise(c, "ImportError")
        ELSE IF ~prs.ok THEN Raise(c, "PackageNotFoundError")
        ELSE IF env.com = "Dispatch" THEN Raise(c, "com_error")
        ELSE
            LET started == [c EXCEPT !.app = TRUE] IN
            IF env.com = "Visible" THEN Raise(started, "com_error")
            ELSE
                LET body ==
                        IF env.com = "Open" THEN Raise(started, "com_error")
                        ELSE ComLoop(started, prs, output_dir, input_file.stem,
                                     ImgExt(image_format), 1, env)
                IN  [body EXCEPT !.ctx = Quit(@)]

\* for idx, image in enumerate(images, start=1): save and record the path.
RECURSIVE PageLoop(_, _, _, _, _, _)
PageLoop(c, images, dir, stem, img_ext, idx) ==
    IF idx > Len(images) THEN Return(c, <<>>)
    ELSE
        LET image_path == SlidePath(dir, stem, idx, img_ext)
            shown == [kind |-> IF img_ext = "jpg" THEN "JPEG" ELSE "PNG",
                      slides |-> <<images[idx]>>, rels |-> {}]
            rest == PageLoop(DoWrite(c, image_path, shown), images, dir, stem,
                             img_ext, idx + 1)
        IN  [rest EXCEPT !.val = <<image_path>> \o @]

\* The try block of the conversion backend: the converter, then the
\* rasteriser.
LibreOfficeBody(c, input_file, output_dir, temp_dir, image_format, env) ==
    LET pdf_output == [dir |-> temp_dir, stem |-> input_file.stem, idx |-> 0,
                       ext |-> "pdf"]
        converted == DoWrite(c, pdf_output,
                        [kind |-> "pdf", slides |-> PdfPages(c.src), rels |-> {}])
    IN  CASE env.run = "FileNotFoundError" -> Raise(c, "FileNotFoundError")
          [] env.run = "TimeoutExpired"    -> Raise(c, "TimeoutExpired")
          [] env.run = "nonzero"           -> Raise(c, "RuntimeError")
          [] env.run = "nopdf"             -> Raise(c, "RuntimeError")
          [] OTHER ->
                CASE env.pdf2image = "ImportError" -> Raise(converted, "ImportError")
                  [] env.pdf2image = "PDFInfoNotInstalledError" ->
                        Raise(converted, "PDFInfoNotInstalledError")
                  [] OTHER ->
                        PageLoop(converted, PdfPages(c.src), output_dir,
                                 input_file.stem, ImgExt(image_format), 1)

\* The backend with the clean-up after the try block instead of in a finally
\* clause: the temporary directory goes only when the export succeeds.
export_slides_libreoffice_no_finally(c0, input_file, output_dir, image_format, env) ==
    LET c == Enter(c0, "_export_slides_libreoffice")
        prs == Presentation(c.src, input_file)
    IN  IF ~prs.ok THEN Raise(c, "PackageNotFoundError")
        ELSE
            LET temp_dir == Join(output_dir, "temp_pdf")
                body == LibreOfficeBody(DoMkdir(c, temp_dir), input_file, output_dir,
                                        temp_dir, image_format, env)
            IN  IF body.err # "" THEN body
                ELSE [body EXCEPT !.ctx = DoRmTree(@, temp_dir)]

export_slides_libreoffice(c0, input_file, output_dir, image_format, env) ==
    LET c == Enter(c0, "_export_slides_libreoffice")
        prs == Presentation(c.src, input_file)
    IN  IF ~prs.ok THEN Raise(c, "PackageNotFoundError")
        ELSE
            LET temp_dir == Join(output_dir, "temp_pdf")
                body == LibreOfficeBody(DoMkdir(c, temp_dir), input_file, output_dir,
                                        temp_dir, image_format, env)
            IN  [body EXCEPT !.ctx =
                    IF Abspath(temp_dir) \in @.fs.dirs THEN DoRmTree(@, temp_dir) ELSE @]

\* The exporter with every backend failure caught and raised again as one
\* RuntimeError.
export_slides_as_images_wrapping(c0, is_windows, input_file, output_dir, image_format, env) ==
    LET c == Enter(c0, "export_slides_as_images")
        dir == IF output_dir = NoneDir THEN DefaultImagesDir ELSE output_dir
        c1 == DoMkdir(c, dir)
        backend == SelectBackend(is_windows, env.lo)
        r == CASE backend = "com" ->
                    export_slides_windows_com(c1, input_file, Abspath(dir),
                                              image_format, env)
               [] backend = "none" -> Raise(c1, "RuntimeError")
               [] OTHER ->
                    export_slides_libreoffice(c1, input_file, Abspath(dir),
                                              image_format, env)
    IN  IF r.err = "" THEN r ELSE Raise(r.ctx, "RuntimeError")

export_slides_as_images(c0, is_windows, input_file, output_dir, image_format, env) ==
    LET c == Enter(c0, "export_slides_as_images")
        dir == IF output_dir = NoneDir THEN DefaultImagesDir ELSE output_dir
        c1 == DoMkdir(c, dir)
        backend == SelectBackend(is_windows, env.lo)
    IN  CASE backend = "com" ->
                export_slides_windows_com(c1, input_file, Abspath(dir), image_format, env)
          [] backend = "none" -> Raise(c1, "RuntimeError")
          [] OTHER ->
                export_slides_libreoffice(c1, input_file, Abspath(dir), image_format, env)

\* ------------------------------------------------------------------ both
\* The pair of lists with a failure of the image export swallowed: an empty
\* image list.
split_pptx_with_images_swallow(c0, is_windows, input_file, output_pptx_dir, output_images_dir, image_format, env) ==
    LET c == Enter(c0, "split_pptx_with_images")
        split == split_pptx(c, input_file, output_pptx_dir, env.saveFailAt)
    IN  IF split.err # "" THEN Raise(split.ctx, split.err)
        ELSE
            LET images == export_slides_as_images(split.ctx, is_windows, input_file,
                                output_images_dir, image_format, env)
            IN  Return(images.ctx,
                    [pptx_files |-> split.val,
                     image_files |-> IF images.err # "" THEN <<>> ELSE images.val,
                     total_slides |-> Len(split.val)])

\* The dictionary split_pptx_with_images returns is the pair of lists;
\* total_slides is the length of pptx_files.
split_pptx_with_images(c0, is_windows, input_file, output_pptx_dir, output_images_dir, image_format, env) ==
    LET c == Enter(c0, "split_pptx_with_images")
        split == split_pptx(c, input_file, output_pptx_dir, env.saveFailAt)
    IN  IF split.err # "" THEN Raise(split.ctx, split.err)
        ELSE
            LET images == export_slides_as_images(split.ctx, is_windows, input_file,
                                output_images_dir, image_format, env)
            IN  IF images.err # "" THEN Raise(images.ctx, images.err)
                ELSE Return(images.ctx,
                        [pptx_files |-> split.val, image_files |-> images.val,
                         total_slides |-> Len(split.val)])

\* ------------------------------------------------------------------ POST /slice
\* The checks without the one on image_format.
ValidationErrorNoFormat(src, request) ==
    IF ~Exists(src, request.file_path) THEN "HTTPException:404"
    ELSE IF Lower(request.file_path.ext) \notin {"pptx", "ppt"} THEN "HTTPException:400"
    ELSE ""

\* The checks at the head of the handler's try block: the HTTPException one
\* of them raises, or "" when the request passes.
ValidationError(src, request) ==
    IF ~Exists(src, request.file_path) THEN "HTTPException:404"
    ELSE IF Lower(request.file_path.ext) \notin {"pptx", "ppt"} THEN "HTTPException:400"
    ELSE IF Lower(request.image_format) \notin {"png", "jpg", "jpeg"}
         THEN "HTTPException:400"
    ELSE ""

\* SliceResponse(success=True, ...), and the answer to a raised HTTPException.
SliceResponse(total_slides, pptx_files, image_files, images_null) ==
    [status |-> 200, success |-> TRUE, total_slides |-> total_slides,
     pptx_files |-> pptx_files, image_files |-> image_files,
     images_null |-> images_null]

ErrorResponse(status) ==
    [status |-> status, success |-> FALSE, total_slides |-> 0,
     pptx_files |-> <<>>, image_files |-> <<>>, images_null |-> TRUE]

\* The processing with generate_images ignored: images always.
ProcessFileAlwaysImages(c, is_windows, request, env) ==
    LET result == split_pptx_with_images(c, is_windows, request.file_path,
                        request.output_pptx_dir, request.output_images_dir,
                        request.image_format, env)
    IN  IF result.err # "" THEN result
        ELSE Return(result.ctx,
                SliceResponse(result.val.total_slides, result.val.pptx_files,
                              result.val.image_files, FALSE))

\* "Process the file": the branch on generate_images.
ProcessFile(c, is_windows, request, env) ==
    IF request.generate_images
    THEN LET result == split_pptx_with_images(c, is_windows, request.file_path,
                            request.output_pptx_dir, request.output_images_dir,
                            request.image_format, env)
         IN  IF result.err # "" THEN result
             ELSE Return(result.ctx,
                    SliceResponse(result.val.total_slides, result.val.pptx_files,
                                  result.val.image_files, FALSE))
    ELSE LET split == split_pptx(c, request.file_path, request.output_pptx_dir,
                                 env.saveFailAt)
         IN  IF split.err # "" THEN split
             ELSE Return(split.ctx,
                    SliceResponse(Len(split.val), split.val, <<>>, TRUE))

\* The except clauses, in their order: FileNotFoundError, then Exception.
\* Every exception the try block raises is an Exception, the HTTPException
\* of a failed check included.
ExceptStatus(err) ==
    IF err = "FileNotFoundError" THEN 404 ELSE 500

\* The outcome of the try block, answered by the except clauses when it
\* raised.
Handled(tried) ==
    IF tried.err = "" THEN tried
    ELSE [tried EXCEPT !.val = ErrorResponse(ExceptStatus(tried.err))]

slice_powerpoint(c0, is_windows, request, env) ==
    LET c == Enter(c0, "slice_powerpoint")
        invalid == ValidationError(c.src, request)
    IN  Handled(IF invalid # "" THEN Raise(c, invalid)
                ELSE ProcessFile(c, is_windows, request, env))

\* ------------------------------------------------------------------ state
VARIABLES
    source,     \* the source presentation: exists, dir, sldIdLst, hidden
    platform,   \* platform.system()
    fs,         \* directories and files below the output directories
    app,        \* a presentation application instance is running
    ncalls,     \* operations called so far
    last        \* the last operation: its arguments, outcome and effects

vars == <<source, platform, fs, app, ncalls, last>>

\* Slide relationship ids of a source with n slides.
SourceSlides(n) == [i \in 1..n |-> i + 1]

\* The presentations on disk: none, or one of 0..MaxSlides slides of which
\* the first may be hidden (the case that shifts every page of the PDF), or
\* one of a single slide kept in a directory named temp_pdf.
Sources ==
    {[exists |-> FALSE, dir |-> DecksDir, sldIdLst |-> <<>>, hidden |-> {}]}
    \cup {[exists |-> TRUE, dir |-> DecksDir, sldIdLst |-> SourceSlides(n),
           hidden |-> {}] : n \in 0..MaxSlides}
    \cup {[exists |-> TRUE, dir |-> DecksDir, sldIdLst |-> SourceSlides(n),
           hidden |-> {SourceSlides(n)[1]}] : n \in 1..MaxSlides}
    \cup {[exists |-> TRUE, dir |-> TempPdfDir, sldIdLst |-> SourceSlides(1),
           hidden |-> {}]}

\* The directories that exist before the first call: those that hold the
\* source.
InitialFs(src) == IF src.exists THEN Mkdir(EmptyFs, src.dir) ELSE EmptyFs

ImageFormats == {"png", "jpg", "JPEG", "gif"}

NoRequest ==
    [file_path |-> DeckPath, output_pptx_dir |-> NoneDir,
     output_images_dir |-> NoneDir, generate_images |-> FALSE,
     image_format |-> "png"]

\* The requests a client posts: the output directories both left out or
\* both given.
Requests ==
    {[file_path |-> f,
      output_pptx_dir |-> IF custom THEN CustomPptxDir ELSE NoneDir,
      output_images_dir |-> IF custom THEN CustomImagesDir ELSE NoneDir,
      generate_images |-> g, image_format |-> fmt] :
        f \in InputPaths, custom \in BOOLEAN, g \in BOOLEAN, fmt \in ImageFormats}

NoEnv ==
    [saveFailAt |-> 0, lo |-> TRUE, run |-> "ok", pdf2image |-> "ok",
     pywin32 |-> TRUE, com |-> "ok"]

\* What the surroundings can answer during one call.  A field the path
\* taken never reads keeps its value of NoEnv.
EnvsOn(is_windows) ==
    {e \in [saveFailAt : {0}, lo : BOOLEAN,
            run : {"ok", "FileNotFoundError", "TimeoutExpired", "nonzero", "nopdf"},
            pdf2image : {"ok", "ImportError", "PDFInfoNotInstalledError"},
            pywin32 : BOOLEAN,
            com : {"ok", "Dispatch", "Visible", "Open", "Export"}] :
        /\ ~e.lo => e.run = "ok" /\ e.pdf2image = "ok"
        /\ e.run # "ok" => e.pdf2image = "ok"
        /\ (e.lo \/ ~is_windows) => e.pywin32 /\ e.com = "ok"
        /\ ~e.pywin32 => e.com = "ok"}

WindowsEnvs == EnvsOn(TRUE)
OtherEnvs == EnvsOn(FALSE)
ExportEnvs(is_windows) == IF is_windows THEN WindowsEnvs ELSE OtherEnvs

SplitEnvs(n) == {[NoEnv EXCEPT !.saveFailAt = k] : k \in 0..n}

\* The answers that matter to a request: none when a check rejects it, the
\* saves alone when no images are asked for.
Envs(src, is_windows, request) ==
    IF ValidationError(src, request) # "" THEN {NoEnv}
    ELSE IF ~request.generate_images THEN SplitEnvs(Len(src.sldIdLst))
    ELSE ExportEnvs(is_windows) \cup SplitEnvs(Len(src.sldIdLst))

NewCtx ==
    [src |-> source, fs |-> fs, app |-> app, calls |-> <<>>, mkdirs |-> {},
     writes |-> {}, rmtrees |-> {}]

Outcome(op, request, env, r, response) ==
    [op |-> op, request |-> request, env |-> env, src |-> source, err |-> r.err,
     response |-> response,
     calls |-> r.ctx.calls, mkdirs |-> r.ctx.mkdirs, writes |-> r.ctx.writes,
     rmtrees |-> r.ctx.rmtrees]

Commit(op, request, env, r, response) ==
    /\ source' = r.ctx.src
    /\ fs' = r.ctx.fs
    /\ app' = r.ctx.app
    /\ ncalls' = ncalls + 1
    /\ last' = Outcome(op, request, env, r, response)
    /\ UNCHANGED platform

Init ==
    /\ source \in Sources
    /\ platform \in {"Windows", "Linux"}
    /\ fs = InitialFs(source)
    /\ app = FALSE
    /\ ncalls = 0
    /\ last = [op |-> "none", request |-> NoRequest, env |-> NoEnv,
               src |-> source, err |-> "",
               response |-> ErrorResponse(0), calls |-> <<>>, mkdirs |-> {},
               writes |-> {}, rmtrees |-> {}]

\* A caller of the module calls split_pptx.
CallSplit ==
    /\ ncalls < MaxCalls
    /\ \E output_dir \in {NoneDir, CustomPptxDir},
          env \in SplitEnvs(Len(source.sldIdLst)) :
        \E r \in {split_pptx(NewCtx, DeckPath, output_dir, env.saveFailAt)},
           request \in {[NoRequest EXCEPT !.output_pptx_dir = output_dir]} :
            Commit("split_pptx", request, env, r,
                   IF r.err = "" THEN SliceResponse(Len(r.val), r.val, <<>>, TRUE)
                   ELSE ErrorResponse(0))

\* A caller of the module calls export_slides_as_images.
CallExport ==
    /\ ncalls < MaxCalls
    /\ \E output_dir \in {NoneDir, CustomImagesDir},
          image_format \in ImageFormats,
          env \in ExportEnvs(platform = "Windows") :
        \E r \in {export_slides_as_images(NewCtx, platform = "Windows", DeckPath,
                                          output_dir, image_format, env)},
           request \in {[NoRequest EXCEPT !.output_images_dir = output_dir,
                                          !.generate_images = TRUE,
                                          !.image_format = image_format]} :
            Commit("export_slides_as_images", request, env, r,
                   IF r.err = "" THEN SliceResponse(0, <<>>, r.val, FALSE)
                   ELSE ErrorResponse(0))

\* A client posts a request to /slice.
PostSlice ==
    /\ ncalls < MaxCalls
    /\ \E request \in Requests :
        \E env \in Envs(source, platform = "Windows", request) :
            \E r \in {slice_powerpoint(NewCtx, platform = "Windows", request, env)} :
                Commit("slice_powerpoint", request, env, r, r.val)

Next == CallSplit \/ CallExport \/ PostSlice

Spec == Init /\ [][Next]_vars

\* ------------------------------------------------------------------ properties
\* The slides of the source as the last call found it, and what the call
\* did.
NSlides == Len(last.src.sldIdLst)
Succeeded(op) == last.op = op /\ last.err = ""
BackendFns == {"_export_slides_windows_com", "_export_slides_libreoffice"}
Attempted == SelectSeq(last.calls, LAMBDA fn : fn \in BackendFns)
Entered(fn) == \E k \in 1..Len(last.calls) : last.calls[k] = fn

\* The single-slide presentation that holds slide i of the source and
\* nothing else.
OnlySlide(i) ==
    [kind |-> "pptx", slides |-> <<last.src.sldIdLst[i]>>,
     rels |-> {last.src.sldIdLst[i]}]

\* C1: for a source of N slides split_pptx returns N files (it returns
\* whenever the source exists and every save succeeds, and never fails on a
\* slide index), and the i-th file holds exactly one slide, slide i of the
\* source, with the relationships of all other slides dropped.  The same
\* holds of the pptx_files a successful POST /slice answers with.
C1_SplitYieldsEachSlide ==
    /\ last.err # "IndexError"
    /\ (last.op = "split_pptx" /\ last.src.exists /\ last.env.saveFailAt = 0)
            => last.err = ""
    /\ (Succeeded("split_pptx") \/ Succeeded("slice_powerpoint")) =>
            /\ Len(last.response.pptx_files) = NSlides
            /\ \A i \in 1..NSlides :
                    \E f \in fs.files :
                        /\ f.loc = Location(last.response.pptx_files[i])
                        /\ f.data = OnlySlide(i)

\* A split of a source of three slides or more has returned: every kept
\* slide but the last had a higher neighbour to delete first.
C1_Witness ==
    /\ Succeeded("split_pptx")
    /\ NSlides >= 3
    /\ Len(last.response.pptx_files) = NSlides

\* What POST /slice is asked for, read off the request alone.
MissingFile(request) == request.file_path = DeckPath /\ ~last.src.exists
PowerPointName(request) == request.file_path.ext \in {"pptx", "PPTX", "ppt", "PPT"}
KnownFormat(request) ==
    request.image_format \in {"png", "PNG", "jpg", "JPG", "jpeg", "JPEG"}
InvalidInput(request) == ~PowerPointName(request) \/ ~KnownFormat(request)

\* C2: POST /slice answers 404 for a file_path that does not exist and 400
\* for an existing path with a wrong extension or an unknown image_format;
\* 500 is left to the other failures.
C2_ValidationIsClientError ==
    last.op = "slice_powerpoint" =>
        /\ MissingFile(last.request) => last.response.status = 404
        /\ (~MissingFile(last.request) /\ InvalidInput(last.request))
                => last.response.status = 400
        /\ last.response.status = 500
                => ~MissingFile(last.request) /\ ~InvalidInput(last.request)

\* The error the surroundings make each backend raise ("" when none), read
\* off the source and the answers recorded with the call.
LibreOfficeFault ==
    IF ~last.src.exists THEN "PackageNotFoundError"
    ELSE CASE last.env.run = "FileNotFoundError" -> "FileNotFoundError"
           [] last.env.run = "TimeoutExpired" -> "TimeoutExpired"
           [] last.env.run \in {"nonzero", "nopdf"} -> "RuntimeError"
           [] OTHER -> IF last.env.pdf2image = "ok" THEN "" ELSE last.env.pdf2image

ComFault ==
    IF ~last.env.pywin32 THEN "ImportError"
    ELSE IF ~last.src.exists THEN "PackageNotFoundError"
    ELSE IF last.env.com \in {"Dispatch", "Visible", "Open"} THEN "com_error"
    ELSE IF /\ last.env.com = "Export"
            /\ NSlides >= 1
            /\ last.request.image_format \in {"png", "jpg", "JPEG"}
         THEN "com_error"
    ELSE ""

ExporterFault ==
    IF Attempted = <<"_export_slides_libreoffice">> THEN LibreOfficeFault
    ELSE IF Attempted = <<"_export_slides_windows_com">> THEN ComFault
    ELSE "RuntimeError"

NativeAvailable == platform = "Windows" /\ last.env.pywin32

\* C3 as stated: native automation, where the platform has it, is attempted
\* before the conversion toolchain, and a call that fails has gone through
\* the backends in that order.
C3_NativeFirstThenConversion ==
    last.op = "export_slides_as_images" =>
        /\ (NativeAvailable /\ Entered("_export_slides_libreoffice"))
                => Attempted[1] = "_export_slides_windows_com"
        /\ (NativeAvailable /\ last.env.lo /\ last.err # "")
                => Len(Attempted) >= 2

\* C3, amended: export_slides_as_images attempts exactly one backend, chosen
\* by what is installed and not by a fixed order of attempts: the conversion
\* toolchain whenever a LibreOffice command is found, on every platform;
\* native automation only on Windows with no LibreOffice command; none
\* otherwise.  No second backend is attempted and there is no in-process
\* backend.
C3_OneBackendByAvailability ==
    last.op = "export_slides_as_images" =>
        /\ Attempted =
                IF last.env.lo THEN <<"_export_slides_libreoffice">>
                ELSE IF platform = "Windows" THEN <<"_export_slides_windows_com">>
                ELSE <<>>
        /\ \A k \in 1..Len(last.calls) :
                last.calls[k] \in BackendFns \cup {"export_slides_as_images"}

\* On Windows, with LibreOffice found, the conversion toolchain did the
\* export and native automation was never entered.
C3_Witness ==
    /\ Succeeded("export_slides_as_images")
    /\ platform = "Windows"
    /\ last.env.lo
    /\ Attempted = <<"_export_slides_libreoffice">>
    /\ Len(last.response.image_files) >= 1

\* C4 as stated: a failed call of export_slides_as_images has tried every
\* backend there is and fails with a RuntimeError, never with the error of
\* one backend.
C4_FailsOnlyOnExhaustion ==
    (last.op = "export_slides_as_images" /\ last.err # "") =>
        /\ last.err = "RuntimeError"
        /\ platform = "Windows" => Entered("_export_slides_windows_com")
        /\ last.env.lo => Entered("_export_slides_libreoffice")

\* C4, amended: no backend failure is caught.  The call fails exactly when
\* the one backend selected fails, with that backend's own error unchanged
\* (ImportError, RuntimeError, TimeoutExpired, FileNotFoundError, ...), and no
\* other backend is tried after it; with no backend to select (no
\* LibreOffice command, not Windows) it fails with a RuntimeError.
C4_BackendErrorPropagates ==
    last.op = "export_slides_as_images" =>
        /\ Len(Attempted) <= 1
        /\ last.err = ExporterFault
        /\ Attempted = <<>> => ~last.env.lo /\ platform # "Windows"

\* On Windows the converter timed out; the call failed with the time-out
\* itself and native automation was not tried.
C4_Witness ==
    /\ last.op = "export_slides_as_images"
    /\ platform = "Windows"
    /\ last.err = "TimeoutExpired"
    /\ Attempted = <<"_export_slides_libreoffice">>

\* C5: a successful export_slides_as_images (asked for one of the documented
\* formats) returns exactly N paths for a source of N slides, each of a file
\* the call wrote, whatever the number of pages of the intermediate PDF.
C5_OneImagePerSlide ==
    (Succeeded("export_slides_as_images") /\ KnownFormat(last.request)) =>
        /\ Len(last.response.image_files) = NSlides
        /\ \A k \in 1..Len(last.response.image_files) :
                Location(last.response.image_files[k]) \in last.writes

\* C6: a POST /slice with a wrong extension or an unknown image_format is
\* rejected before anything happens: no directory made, no file written or
\* removed, no function of the slicer entered, no success answered.
C6_RejectionTouchesNothing ==
    (last.op = "slice_powerpoint" /\ InvalidInput(last.request)) =>
        /\ last.mkdirs = {}
        /\ last.writes = {}
        /\ last.rmtrees = {}
        /\ last.calls = <<"slice_powerpoint">>
        /\ ~last.response.success

\* A request for images of an existing presentation in an unknown format
\* was rejected.
C6_Witness ==
    /\ last.op = "slice_powerpoint"
    /\ last.request.file_path = DeckPath
    /\ last.src.exists
    /\ NSlides >= 1
    /\ last.request.generate_images
    /\ last.request.image_format = "gif"
    /\ ~last.response.success

\* POST /slice with generate_images: the split returned and the image export
\* then failed.
ImagesFailedAfterSplit ==
    /\ last.op = "slice_powerpoint"
    /\ last.request.generate_images
    /\ Entered("export_slides_as_images")
    /\ ExporterFault # ""

\* The split files of the request are on disk, one per slide.
SplitFilesOnDisk ==
    \A i \in 1..NSlides :
        \E f \in fs.files :
            /\ f.loc.dir = Abspath(IF last.request.output_pptx_dir = NoneDir
                                   THEN DefaultPptxDir
                                   ELSE last.request.output_pptx_dir)
            /\ f.loc.idx = i
            /\ f.data = OnlySlide(i)

C8_SplitterOnlyResult ==
    last.op = "slice_powerpoint" =>
        /\ ~last.request.generate_images =>
                /\ ~Entered("export_slides_as_images")
                /\ ~Entered("split_pptx_with_images")
                /\ \A d \in last.mkdirs :
                        ~Under(d, Abspath(DefaultImagesDir))
                            /\ ~Under(d, Abspath(CustomImagesDir))
                /\ \A w \in last.writes : w.ext = "pptx"
                /\ last.response.success =>
                        /\ last.response.images_null
                        /\ last.response.image_files = <<>>
        /\ last.response.success =>
                /\ last.response.total_slides = Len(last.response.pptx_files)
                /\ last.request.generate_images => ~last.response.images_null

\* A request without images for a presentation with slides succeeded.
C8_Witness ==
    /\ Succeeded("slice_powerpoint")
    /\ ~last.request.generate_images
    /\ last.response.success
    /\ last.response.images_null
    /\ last.response.total_slides >= 2

\* The k-th path of a list: slide k of the deck, in the directory and with
\* the extension given.
NamedByPosition(paths, dir, ext) ==
    \A k \in 1..Len(paths) :
        /\ paths[k].stem = DeckPath.stem
        /\ paths[k].idx = k
        /\ paths[k].ext = ext
        /\ Abspath(paths[k].dir) = Abspath(dir)

\* The file at a path, if there is one.
FileAt(files, path) == {f \in files.files : f.loc = Location(path)}

\* The files at the paths of a list show slides of the source in the
\* source's order.
PositionOf(rId) == CHOOSE i \in 1..NSlides : last.src.sldIdLst[i] = rId
InSlideOrder(paths) ==
    \A j, k \in 1..Len(paths) :
        j < k =>
            \A f \in FileAt(fs, paths[j]), g \in FileAt(fs, paths[k]) :
                PositionOf(f.data.slides[1]) < PositionOf(g.data.slides[1])

\* C9: every list of paths returned is named by 1-based position and is in
\* slide order: the k-th path is <output_dir>/<stem>_slide_<k>.<ext> (the
\* directory as the function resolves it), for the split files with ext pptx,
\* for the images with the one extension of the call; the indices start at
\* 1, are contiguous and never repeat.
C9_PathsNamedByPosition ==
    last.err = "" =>
        /\ NamedByPosition(last.response.pptx_files,
                IF last.request.output_pptx_dir = NoneDir THEN DefaultPptxDir
                ELSE last.request.output_pptx_dir, "pptx")
        /\ \E ext \in {"png", "jpg", "gif"} :
                NamedByPosition(last.response.image_files,
                    IF last.request.output_images_dir = NoneDir THEN DefaultImagesDir
                    ELSE last.request.output_images_dir, ext)
        /\ InSlideOrder(last.response.pptx_files)
        /\ InSlideOrder(last.response.image_files)

\* A request answered with two or more split files and two or more images.
C9_Witness ==
    /\ Succeeded("slice_powerpoint")
    /\ Len(last.response.pptx_files) >= 2
    /\ Len(last.response.image_files) >= 2

\* C10: every image path a returning export produces ends in png or jpg.
C10_CanonicalExtension ==
    (last.op \in {"export_slides_as_images", "slice_powerpoint"} /\ last.err = "") =>
        \A k \in 1..Len(last.response.image_files) :
            last.response.image_files[k].ext \in {"png", "jpg"}

\* C11: once the presentation application has been started it is shut down
\* on every exit path of the automation backend, the failure to configure
\* it included: no call leaves an application instance running.
C11_ApplicationAlwaysQuit ==
    Entered("_export_slides_windows_com") => ~app

\* C12: the source is an immutable input: whatever the call, its outcome and
\* the output directories it names, the source file still exists afterwards
\* with the slide sequence it had.
C12_SourceUntouched ==
    source = last.src

\* The temporary conversion directories the last call created.
TempDirs == {d \in last.mkdirs : d.parts[Len(d.parts)] = "temp_pdf"}
InTree(d) == {f \in fs.files : Under(f.loc.dir, d)}

\* C13: the conversion backend removes the temporary directory
\* <output_dir>/temp_pdf on every exit path after creating it (success,
\* converter failure, missing PDF, timeout, missing rasteriser): once the
\* backend has returned or raised, the directory and everything in it are
\* gone.
C13_TempDirRemoved ==
    /\ (Entered("_export_slides_libreoffice") /\ last.src.exists) => TempDirs # {}
    /\ \A d \in TempDirs :
        /\ d \in last.rmtrees
        /\ d \notin fs.dirs
        /\ InTree(d) = {}

\* The converter wrote the PDF into the temporary directory and the
\* rasterisation library was missing: the backend raised, and the directory
\* is gone.
C13_Witness ==
    /\ Entered("_export_slides_libreoffice")
    /\ last.err = "ImportError"
    /\ \E d \in TempDirs :
        /\ \E w \in last.writes : w.dir = d /\ w.ext = "pdf"
        /\ d \notin fs.dirs

====
